---- MODULE Spec2Model ----
(***************************************************************************)
(* Model of mining_model_creator.py: column-name matching, output-name     *)
(* synthesis, the document mutation pipeline (prepare / remove_unused /    *)
(* write / delete), the project-file registration, the column export and   *)
(* the batch driver.                                                       *)
(*                                                                         *)
(* Text is modelled as a sequence of one-character strings, so that the    *)
(* regular expressions and substring tests of the source are computed and  *)
(* not assumed.                                                            *)
(***************************************************************************)
EXTENDS Integers, Sequences, FiniteSets, TLC

VARIABLES
    filename,        \* Document.filename: path of the template
    xml,             \* Document.xml: the parsed tree
    root,            \* Document.root
    input_columns,   \* Document.input_columns
    output_column,   \* Document.output_column (NoColumn is None)
    _name,           \* Document._name (NoneValue is None)
    humanhash,       \* whether the optional humanhash module was imported
    phase,           \* where the document is in its pipeline
    err,             \* the exception that ended the last operation, "" if none
    lastOp,          \* the last operation and its argument
    files,           \* the .dmm files next to the template
    project,         \* the lines of the .dwproj file next to the template
    canon,           \* argument and results of the name-reduction calls (SpecCanon)
    batch,           \* main(): the spec table, the row reached, the outcomes (SpecBatch)
    manifest,        \* the calls made on the project file (SpecManifest)
    csv              \* the .csv file next to the template (SpecExport)

vars == <<filename, xml, root, input_columns, output_column, _name, humanhash,
          phase, err, lastOp, files, project, canon, batch, manifest, csv>>

docVars == <<filename, xml, root, input_columns, output_column, _name, phase, err, lastOp>>

----------------------------------------------------------------------------
(* Text primitives                                                         *)

\* The characters of the model in code-point order (Python compares str by code point).
CharOrder ==
    <<"\n", " ", "-", ".", "/", "0", "1", "2", "3", "4", "5", "6", "7", "8", "9",
      "<", ">",
      "A", "B", "C", "D", "E", "F", "G", "H", "I", "J", "K", "L", "M", "N", "O",
      "P", "Q", "R", "S", "T", "U", "V", "W", "X", "Y", "Z", "_",
      "a", "b", "c", "d", "e", "f", "g", "h", "i", "j", "k", "l", "m", "n", "o",
      "p", "q", "r", "s", "t", "u", "v", "w", "x", "y", "z">>

\* ord(c), up to the order of the characters
CharCode ==
    [c \in {CharOrder[i] : i \in 1..Len(CharOrder)} |->
        CHOOSE i \in 1..Len(CharOrder) : CharOrder[i] = c]

Code(c) == CharCode[c]

DigitChars == <<"0", "1", "2", "3", "4", "5", "6", "7", "8", "9">>

\* [0-9]
Digits == {DigitChars[i] : i \in 1..Len(DigitChars)}

\* int(c) for one digit character
DigitVal(c) == (CHOOSE i \in 1..Len(DigitChars) : DigitChars[i] = c) - 1

\* [Ll]
LevelLetters == {"L", "l"}

\* [-_\s]
ShortnameSeps == {"-", "_", " ", "\n"}

SetMin(S) == CHOOSE x \in S : \A y \in S : x <= y

SetMax(S) == CHOOSE x \in S : \A y \in S : x >= y

\* s[i..] is one or more digits up to the end of s: [0-9]+$
DigitsToEnd(s, i) == i <= Len(s) /\ \A k \in i..Len(s) : s[k] \in Digits

\* s[i..] is [Ll]?[0-9]+$
LevelTail(s, i) ==
    \/ DigitsToEnd(s, i)
    \/ i <= Len(s) /\ s[i] \in LevelLetters /\ DigitsToEnd(s, i + 1)

\* a in b (Python substring test)
Contains(b, a) ==
    \E i \in 0..(Len(b) - Len(a)) : SubSeq(b, i + 1, i + Len(a)) = a

\* a < b in Python's str order
StrLess(a, b) ==
    LET n    == IF Len(a) < Len(b) THEN Len(a) ELSE Len(b)
        diff == {i \in 1..n : a[i] # b[i]}
    IN  IF diff = {} THEN Len(a) < Len(b)
        ELSE Code(a[SetMin(diff)]) < Code(b[SetMin(diff)])

----------------------------------------------------------------------------
(* MiningColumn: name reduction, level, shortname, matches                 *)

\* regex.sub('', s) with regex '.[Ll]?[0-9]+$': the leftmost position where any
\* one character, an optional L/l and digits up to the end match is cut off.
Canonical(s) ==
    LET starts == {i \in 1..Len(s) : s[i] # "\n" /\ LevelTail(s, i + 1)}
    IN  IF starts = {} THEN s ELSE SubSeq(s, 1, SetMin(starts) - 1)

\* MiningColumn.matches on the two names (str(self) and the reference).
Matches(self, column, strict) ==
    IF column = self THEN TRUE
    ELSE IF ~strict THEN Canonical(self) = Canonical(column)
    ELSE FALSE

\* re.sub('[-_\s]*[Ll]?[0-9]+$', '', name): the leftmost position from which a
\* run of separators, an optional L/l and digits up to the end match is cut off.
Shortname(s) ==
    LET starts == {i \in 1..Len(s) :
                      \E j \in i..Len(s) :
                          /\ \A k \in i..(j - 1) : s[k] \in ShortnameSeps
                          /\ LevelTail(s, j)}
    IN  IF starts = {} THEN s ELSE SubSeq(s, 1, SetMin(starts) - 1)

\* The group captured by re.match('.*[Ll]?([0-9]+)$', s): the greedy '.*' takes
\* the longest prefix that still leaves [Ll]?[0-9]+ to the end of s.
LevelGroup(s) ==
    LET ks == {k \in 0..Len(s) :
                  /\ \A i \in 1..k : s[i] # "\n"
                  /\ LevelTail(s, k + 1)}
        k  == SetMax(ks)
    IN  IF ks = {} THEN <<>>
        ELSE IF s[k + 1] \in LevelLetters THEN SubSeq(s, k + 2, Len(s))
        ELSE SubSeq(s, k + 1, Len(s))

\* MiningColumn.level: max(map(int, group)), 0 without a match.
Level(s) ==
    LET group == LevelGroup(s)
    IN  IF group = <<>> THEN 0
        ELSE SetMax({DigitVal(group[i]) : i \in 1..Len(group)})

----------------------------------------------------------------------------
(* The tree: structure columns, mining models and their column nodes       *)

\* None, where the source holds None in place of a str
NoneValue == <<"<None>">>

\* str(None)
NoneStr == <<"N", "o", "n", "e">>

\* no Usage element under a model column
NoUsage == <<>>

\* A top-level column of the mining structure (the node a MiningColumn wraps).
\* nested: xsi:type is TableMiningStructureColumn; child: its first inner column.
\* dtn: the node carries a dwd:design-time-name attribute.
StructureColumn(id, name, dtn) ==
    [id |-> id, name |-> name, nested |-> FALSE,
     child |-> [id |-> <<>>, name |-> <<>>], dtn |-> dtn]

TableColumn(id, name, childId, childName, dtn) ==
    [id |-> id, name |-> name, nested |-> TRUE,
     child |-> [id |-> childId, name |-> childName], dtn |-> dtn]

\* Document.output_column = None
NoColumn ==
    [id |-> NoneValue, name |-> NoneValue, nested |-> FALSE,
     child |-> [id |-> <<>>, name |-> <<>>], dtn |-> FALSE]

\* A Column node under a mining model's Columns. qualified: the tag is in the
\* default namespace, which is what the 'default:Column' queries find.
ModelColumn(qualified, id, name, source, usage, dtn, columns) ==
    [qualified |-> qualified, id |-> id, name |-> name, source |-> source,
     usage |-> usage, dtn |-> dtn, columns |-> columns]

MiningModel(id, name, dtn, columns) ==
    [id |-> id, name |-> name, dtn |-> dtn, columns |-> columns]

\* MiningColumn.__str__: the name, for a nested column the name of its child
Str(col) == IF col.nested THEN col.child.name ELSE col.name

\* MiningColumn.create_mining_node: the node appended under a model's Columns
create_mining_node(col, usage) ==
    ModelColumn(FALSE, col.name, col.name, col.id, usage, FALSE,
        IF col.nested
        THEN <<ModelColumn(FALSE, col.child.name, col.child.name, col.child.id,
                           <<"K", "e", "y">>, FALSE, <<>>)>>
        ELSE <<>>)

\* seq without the elements whose flag is FALSE, the order kept
SelectByFlags(seq, flags) ==
    LET idx == {i \in 1..Len(seq) : flags[i]}
    IN  [j \in 1..Cardinality(idx) |->
            seq[CHOOSE i \in idx : Cardinality({k \in idx : k <= i}) = j]]

\* list.sort(key=str): stable, ascending by code points
RECURSIVE SortByStr(_)
SortByStr(cols) ==
    IF cols = <<>> THEN <<>>
    ELSE LET sorted == SortByStr(SubSeq(cols, 1, Len(cols) - 1))
             last   == cols[Len(cols)]
             \* the last element goes after every element that is not greater
             after  == {i \in 1..Len(sorted) : ~StrLess(Str(last), Str(sorted[i]))}
             k      == IF after = {} THEN 0 ELSE SetMax(after)
         IN  SubSeq(sorted, 1, k) \o <<last>> \o SubSeq(sorted, k + 1, Len(sorted))

\* Document.mining_columns
mining_columns(tree) == SortByStr(tree.columns)

\* Document.get_columns_by_name
get_columns_by_name(tree, col_name) ==
    LET cols == mining_columns(tree)
    IN  SelectByFlags(cols, [i \in 1..Len(cols) |-> Matches(Str(cols[i]), col_name, FALSE)])

\* max(cols, key=lambda x: x.level): the first column of greatest level
MaxByLevel(cols) ==
    LET top == SetMax({Level(Str(cols[i])) : i \in 1..Len(cols)})
    IN  cols[SetMin({i \in 1..Len(cols) : Level(Str(cols[i])) = top})]

\* The text of every SourceColumnID found by the query of used_columns: the
\* qualified Column nodes at any depth under a model's Columns.
SourceColumnIDs(tree) ==
    UNION {
        {m.columns[i].source : i \in {j \in 1..Len(m.columns) : m.columns[j].qualified}}
        \cup
        UNION {
            {c.columns[i].source : i \in {j \in 1..Len(c.columns) : c.columns[j].qualified}}
            : c \in {m.columns[j] : j \in 1..Len(m.columns)}}
        : m \in {tree.models[k] : k \in 1..Len(tree.models)}}

\* Document.used_columns
used_columns(tree, inputs, output) ==
    SourceColumnIDs(tree)
    \cup {Str(inputs[i]) : i \in 1..Len(inputs)}
    \cup {IF output = NoColumn THEN NoneStr ELSE Str(output)}

----------------------------------------------------------------------------
(* Document.name and Document.part_name                                    *)

LengthLimit == 100

RECURSIVE Join(_, _)
Join(sep, parts) ==
    IF parts = <<>> THEN <<>>
    ELSE IF Len(parts) = 1 THEN parts[1]
    ELSE parts[1] \o sep \o Join(sep, Tail(parts))

\* Document.part_name
part_name(inputs, output) ==
    LET ins  == IF inputs # <<>>
                THEN <<Join(<<"_">>, [i \in 1..Len(inputs) |-> Shortname(Str(inputs[i]))])>>
                ELSE <<>>
        outs == IF output # NoColumn THEN <<Shortname(Str(output))>> ELSE <<>>
    IN  IF ins \o outs = <<>> THEN <<"n", "u", "l", "l", "_", "n", "u", "l", "l">> ELSE Join(<<"_", "_">>, ins \o outs)

HexChars == <<"0", "1", "2", "3", "4", "5", "6", "7", "8", "9", "a", "b", "c", "d", "e", "f">>

RECURSIVE CodeSumOver(_, _, _)
CodeSumOver(s, lo, hi) ==
    IF lo > hi THEN 0
    ELSE IF lo = hi THEN Code(s[lo])
    ELSE CodeSumOver(s, lo, (lo + hi) \div 2) + CodeSumOver(s, ((lo + hi) \div 2) + 1, hi)

CodeSum(s) == CodeSumOver(s, 1, Len(s))

\* hashlib.sha256(text.encode()).hexdigest(): 64 hexadecimal characters that are a
\* function of the text alone (the digest itself is not computed here).
Sha256Hex(text) ==
    LET seed == CodeSum(text) + Len(text)
    IN  [i \in 1..64 |-> HexChars[((seed * i + i * i) % 16) + 1]]

HumanWords == <<<<"a", "l", "p", "h", "a">>, <<"b", "r", "a", "v", "o">>, <<"c", "a", "r", "b", "o", "n">>, <<"d", "e", "l", "t", "a">>>>

\* humanhash.humanize(digest, words=3): three dictionary words joined by '-',
\* a function of the digest alone.
Humanize(digest) ==
    LET third(k) == SubSeq(digest, 21 * (k - 1) + 1, 21 * k)
        word(k)  == HumanWords[(CodeSum(third(k)) % Len(HumanWords)) + 1]
    IN  Join(<<"-">>, <<word(1), word(2), word(3)>>)

\* the short token that stands for part_name in an overlong name
NameToken(part, human) ==
    IF human THEN Humanize(Sha256Hex(part)) ELSE Sha256Hex(part)

\* name[:100] left out: the name is returned at its full length
Untruncated(s, n) == s

Truncate(s, n) == SubSeq(s, 1, IF Len(s) < n THEN Len(s) ELSE n)

\* Document.name without the `if self._name` branch: always composed from the
\* root and the selection
ComposedName(rootName, explicit, inputs, output, human) ==
    LET part == part_name(inputs, output)
        name == rootName \o <<"_", "_">> \o part
    IN  IF Len(name) > LengthLimit
        THEN IF output = NoColumn
             THEN [ok |-> FALSE, val |-> <<>>]
             ELSE [ok |-> TRUE,
                   val |-> Truncate(rootName \o <<"_", "_">> \o NameToken(part, human)
                                      \o <<"_", "_">> \o Shortname(Str(output)),
                                    LengthLimit)]
        ELSE [ok |-> TRUE, val |-> name]

\* Document.name. ok = FALSE: the property raised AttributeError (None.shortname).
Name(rootName, explicit, inputs, output, human) ==
    LET part == part_name(inputs, output)
        name == IF explicit # NoneValue /\ explicit # <<>>
                THEN explicit
                ELSE rootName \o <<"_", "_">> \o part
    IN  IF Len(name) > LengthLimit
        THEN IF output = NoColumn
             THEN [ok |-> FALSE, val |-> <<>>]
             ELSE [ok |-> TRUE,
                   val |-> Truncate(rootName \o <<"_", "_">> \o NameToken(part, human)
                                      \o <<"_", "_">> \o Shortname(Str(output)),
                                    LengthLimit)]
        ELSE [ok |-> TRUE, val |-> name]

----------------------------------------------------------------------------
(* Document.prepare, Document.remove_unused                                *)

\* del node.attrib[design-time-name] for every node under the root that has it
\* ('.//*' selects the descendants of the root element, not the root itself)
StripDesignTimeNames(tree) ==
    LET inner(c) == [c EXCEPT !.dtn = FALSE]
        modelCol(c) == [c EXCEPT !.dtn = FALSE,
                                 !.columns = [i \in 1..Len(c.columns) |-> inner(c.columns[i])]]
        model(m) == [m EXCEPT !.dtn = FALSE,
                              !.columns = [i \in 1..Len(m.columns) |-> modelCol(m.columns[i])]]
    IN  [tree EXCEPT !.columns = [i \in 1..Len(tree.columns) |-> inner(tree.columns[i])],
                     !.models = [i \in 1..Len(tree.models) |-> model(tree.models[i])]]

\* the removal loop of _prepare_model_columns with the test `usage is None` only:
\* every column that has a Usage child, whatever it says, is kept
KeepUsageColumns(columns) ==
    SelectByFlags(columns,
        [i \in 1..Len(columns) |-> ~columns[i].qualified \/ columns[i].usage # NoUsage])

\* the columns _prepare_model_columns leaves of the old list: the loop runs over
\* the qualified Column nodes and removes those whose Usage is not 'Key'
KeepKeyColumns(columns) ==
    SelectByFlags(columns,
        [i \in 1..Len(columns) |-> ~columns[i].qualified \/ columns[i].usage = <<"K", "e", "y">>])

\* Document._prepare_model_columns. err = "AttributeError": output_column is None,
\* raised after the old columns were removed and the input nodes appended.
_prepare_model_columns(model, inputs, output) ==
    LET kept   == KeepKeyColumns(model.columns)
        withIn == kept \o [i \in 1..Len(inputs) |-> create_mining_node(inputs[i], NoUsage)]
    IN  IF output = NoColumn
        THEN [model |-> [model EXCEPT !.columns = withIn], err |-> "AttributeError"]
        ELSE [model |-> [model EXCEPT !.columns =
                            Append(withIn, create_mining_node(output, <<"P", "r", "e", "d", "i", "c", "t", "O", "n", "l", "y">>))],
              err |-> ""]

\* the category markers of prepare(), in the order of its if/elif chain
CategoryMarkers == <<<<"w", "e", "s", "t", "e", "r", "n">>, <<"h", "i", "g", "h", "s", "c", "h", "o", "o", "l", "_", "k", "o", "m", "o", "e", "d", "i", "e">>, <<"m", "a", "e", "r", "c", "h", "e", "n">>>>

\* the model's ID and Name after the if/elif chain of prepare()
RenameModel(model, docName) ==
    LET hits == {i \in 1..Len(CategoryMarkers) : Contains(model.name, CategoryMarkers[i])}
        new  == Truncate(CategoryMarkers[SetMin(hits)] \o <<"_", "_">> \o docName, LengthLimit)
    IN  IF hits = {} THEN model ELSE [model EXCEPT !.id = new, !.name = new]

\* Document.prepare: the tree it leaves and the exception it ends with ("" if none).
\* The statements run in order, so an exception keeps the effects before it.
prepare(tree, rootName, explicit, inputs, output, human) ==
    LET stripped == StripDesignTimeNames(tree)
        docName  == Name(rootName, explicit, inputs, output, human)
        named    == [stripped EXCEPT !.id = docName.val, !.name = docName.val]
        done(m)  == RenameModel(_prepare_model_columns(m, inputs, output).model, docName.val)
    IN  IF ~docName.ok
        THEN [xml |-> stripped, err |-> "AttributeError"]
        ELSE IF named.models = <<>>
        THEN [xml |-> named, err |-> ""]
        ELSE IF output = NoColumn
        THEN [xml |-> [named EXCEPT !.models[1] =
                          _prepare_model_columns(named.models[1], inputs, output).model],
              err |-> "AttributeError"]
        ELSE [xml |-> [named EXCEPT !.models = [i \in 1..Len(named.models) |-> done(named.models[i])]], err |-> ""]

\* remove_unused with used_columns alone as the names to keep (ignore left out)
remove_unused_ignoring_nothing(tree, inputs, output, ignore) ==
    LET used == used_columns(tree, inputs, output)
        keep(col) == \E name \in used : Matches(Str(col), name, FALSE)
    IN  [tree EXCEPT !.columns =
            SelectByFlags(tree.columns,
                          [i \in 1..Len(tree.columns) |-> keep(tree.columns[i])])]

\* remove_unused with col.matches(name, strict=True): only equal names are kept
remove_unused_strict(tree, inputs, output, ignore) ==
    LET used == used_columns(tree, inputs, output) \cup {ignore[i] : i \in 1..Len(ignore)}
        keep(col) == \E name \in used : Matches(Str(col), name, TRUE)
    IN  [tree EXCEPT !.columns =
            SelectByFlags(tree.columns,
                          [i \in 1..Len(tree.columns) |-> keep(tree.columns[i])])]

\* Document.remove_unused: the tree without the top-level columns that match no
\* name of used_columns and no name of ignore
remove_unused(tree, inputs, output, ignore) ==
    LET used == used_columns(tree, inputs, output) \cup {ignore[i] : i \in 1..Len(ignore)}
        keep(col) == \E name \in used : Matches(Str(col), name, FALSE)
    IN  [tree EXCEPT !.columns =
            SelectByFlags(tree.columns,
                          [i \in 1..Len(tree.columns) |-> keep(tree.columns[i])])]

\* DONT_REMOVE_COLUMNS
DONT_REMOVE_COLUMNS ==
    <<<<"G", "e", "n", "r", "e">>, <<"R", "o", "l", "l", "e", "n", "r", "e", "l", "e", "v", "a", "n", "z">>, <<"G", "e", "s", "c", "h", "l", "e", "c", "h", "t">>, <<"D", "o", "m", "i", "n", "a", "n", "t", "e", " ", "C", "h", "a", "r", "a", "k", "t", "e", "r", "e", "i", "g", "e", "n", "s", "c", "h", "a", "f", "t">>>>

----------------------------------------------------------------------------
(* The project file: write_project_item, remove_project_item               *)

ClosingMarker == <<"<", "/", "M", "i", "n", "i", "n", "g", "M", "o", "d", "e", "l", "s", ">">>

\* the four lines write_project_item writes for a name
ProjectItem(name) ==
    <<<<" ", " ", " ", " ", "<", "P", "r", "o", "j", "e", "c", "t", "I", "t", "e", "m", ">", "\n">>,
      <<" ", " ", " ", " ", " ", " ", "<", "N", "a", "m", "e", ">">> \o name \o <<".", "d", "m", "m", "<", "/", "N", "a", "m", "e", ">", "\n">>,
      <<" ", " ", " ", " ", " ", " ", "<", "F", "u", "l", "l", "P", "a", "t", "h", ">">> \o name \o <<".", "d", "m", "m", "<", "/", "F", "u", "l", "l", "P", "a", "t", "h", ">", "\n">>,
      <<" ", " ", " ", " ", "<", "/", "P", "r", "o", "j", "e", "c", "t", "I", "t", "e", "m", ">", "\n">>>>

RECURSIVE InsertBeforeClosing(_, _)
InsertBeforeClosing(lines, block) ==
    IF lines = <<>> THEN <<>>
    ELSE (IF Contains(Head(lines), ClosingMarker) THEN block ELSE <<>>)
         \o <<Head(lines)>> \o InsertBeforeClosing(Tail(lines), block)

\* 'self.name in line' for some line of the project file
NameInSomeLine(lines, name) == \E i \in 1..Len(lines) : Contains(lines[i], name)

\* Document.write_project_item: the lines of the project file after the call
write_project_item(lines, name) ==
    IF NameInSomeLine(lines, name) THEN lines
    ELSE InsertBeforeClosing(lines, ProjectItem(name))

RECURSIVE Concat(_)
Concat(seqs) == IF seqs = <<>> THEN <<>> ELSE Head(seqs) \o Concat(Tail(seqs))

\* project_items(lines): the lines grouped so that a <ProjectItem> line and the
\* lines up to its </ProjectItem> form one group. ok = FALSE: IndexError, the
\* end of the file was reached inside an item.
RECURSIVE project_items(_)
project_items(lines) ==
    IF lines = <<>> THEN [ok |-> TRUE, groups |-> <<>>]
    ELSE IF Contains(Head(lines), <<"<", "P", "r", "o", "j", "e", "c", "t", "I", "t", "e", "m", ">">>)
    THEN LET ends == {k \in 1..Len(lines) :
                         Contains(Concat(SubSeq(lines, 1, k)), <<"<", "/", "P", "r", "o", "j", "e", "c", "t", "I", "t", "e", "m", ">">>)}
             k    == SetMin(ends)
             rest == project_items(SubSeq(lines, k + 1, Len(lines)))
         IN  IF ends = {} THEN [ok |-> FALSE, groups |-> <<>>]
             ELSE [ok |-> rest.ok, groups |-> <<SubSeq(lines, 1, k)>> \o rest.groups]
    ELSE LET rest == project_items(Tail(lines))
         IN  [ok |-> rest.ok, groups |-> <<<<Head(lines)>>>> \o rest.groups]

\* Document.remove_project_item: the lines after the call; err = "IndexError"
\* leaves the file as it was (it is opened for writing after the grouping)
remove_project_item(lines, name) ==
    LET items == project_items(lines)
        keep == [i \in 1..Len(items.groups) |-> ~Contains(Concat(items.groups[i]), name)]
    IN  IF ~items.ok THEN [lines |-> lines, err |-> "IndexError"]
        ELSE [lines |-> Concat(SelectByFlags(items.groups, keep)), err |-> ""]

----------------------------------------------------------------------------
(* Templates: the .dmm files a Document is loaded from                     *)

MaxInputs == 2

LongRootLen == 90

LongNameLen == 101

LongColumnLen == 50

Rep(c, n) == [i \in 1..n |-> c]

Plain(name) == StructureColumn(name, name, TRUE)

Used(name, usage) == ModelColumn(TRUE, name, name, name, usage, TRUE, <<>>)

\* Genre, Figur_L1, Figur_L2 and Rollenrelevanz, one model of the western category
FilmTemplate ==
    [filename |-> <<"d", "/", "m", "s", "_", "f", "i", "l", "m", "_", "v", "o", "r", "l", "a", "g", "e", ".", "d", "m", "m">>,
     xml |-> [id |-> <<"m", "s", "_", "f", "i", "l", "m", "_", "v", "o", "r", "l", "a", "g", "e">>, name |-> <<"m", "s", "_", "f", "i", "l", "m", "_", "v", "o", "r", "l", "a", "g", "e">>, dtn |-> TRUE,
              columns |-> <<Plain(<<"R", "o", "l", "l", "e", "n", "r", "e", "l", "e", "v", "a", "n", "z">>), Plain(<<"G", "e", "n", "r", "e">>),
                            Plain(<<"F", "i", "g", "u", "r", "_", "L", "2">>), Plain(<<"F", "i", "g", "u", "r", "_", "L", "1">>)>>,
              models |-> <<MiningModel(<<"m", "s", "_", "w", "e", "s", "t", "e", "r", "n">>, <<"m", "s", "_", "w", "e", "s", "t", "e", "r", "n">>, TRUE,
                              <<Used(<<"F", "i", "g", "u", "r", "_", "L", "1">>, NoUsage),
                                Used(<<"G", "e", "n", "r", "e">>, <<"P", "r", "e", "d", "i", "c", "t">>)>>)>>]]

\* multi-digit levels, a key column, a nested table column, two models
MuseTemplate ==
    [filename |-> <<"d", "/", "m", "s", "_", "m", "u", "s", "e", "_", "v", "o", "r", "l", "a", "g", "e", ".", "d", "m", "m">>,
     xml |-> [id |-> <<"m", "s", "_", "m", "u", "s", "e", "_", "v", "o", "r", "l", "a", "g", "e">>, name |-> <<"m", "s", "_", "m", "u", "s", "e", "_", "v", "o", "r", "l", "a", "g", "e">>, dtn |-> TRUE,
              columns |-> <<StructureColumn(<<"I", "D">>, <<"I", "D">>, TRUE),
                            Plain(<<"F", "i", "g", "u", "r", "_", "L", "9">>), Plain(<<"F", "i", "g", "u", "r", "_", "L", "1", "0">>), Plain(<<"F", "i", "g", "u", "r", "_", "L", "1", "2">>),
                            TableColumn(<<"K", "o", "s", "t", "u", "e", "m">>, <<"K", "o", "s", "t", "u", "e", "m">>,
                                        <<"F", "a", "r", "b", "e", " ", "I", "D">>, <<"F", "a", "r", "b", "e", "_", "L", "1">>, TRUE),
                            StructureColumn(<<"G", "e", "n", "r", "e", " ", "I", "D">>, <<"G", "e", "n", "r", "e">>, FALSE)>>,
              models |-> <<MiningModel(<<"m", "a", "e", "r", "c", "h", "e", "n", "_", "n", "b">>, <<"m", "a", "e", "r", "c", "h", "e", "n", "_", "n", "b">>, TRUE,
                              <<Used(<<"I", "D">>, <<"K", "e", "y">>),
                                Used(<<"F", "i", "g", "u", "r", "_", "L", "9">>, NoUsage),
                                ModelColumn(TRUE, <<"G", "e", "n", "r", "e">>, <<"G", "e", "n", "r", "e">>, <<"G", "e", "n", "r", "e", " ", "I", "D">>,
                                            <<"P", "r", "e", "d", "i", "c", "t">>, FALSE, <<>>)>>),
                           MiningModel(<<"b", "a", "u", "m">>, <<"b", "a", "u", "m">>, FALSE,
                              <<Used(<<"I", "D">>, <<"K", "e", "y">>),
                                ModelColumn(TRUE, <<"K", "o", "s", "t", "u", "e", "m">>, <<"K", "o", "s", "t", "u", "e", "m">>, <<"K", "o", "s", "t", "u", "e", "m">>,
                                            NoUsage, TRUE,
                                            <<ModelColumn(TRUE, <<"F", "a", "r", "b", "e", "_", "L", "1">>, <<"F", "a", "r", "b", "e", "_", "L", "1">>,
                                                          <<"F", "a", "r", "b", "e", " ", "I", "D">>, <<"K", "e", "y">>, TRUE, <<>>)>>),
                                ModelColumn(TRUE, <<"G", "e", "n", "r", "e">>, <<"G", "e", "n", "r", "e">>, <<"G", "e", "n", "r", "e", " ", "I", "D">>,
                                            <<"P", "r", "e", "d", "i", "c", "t", "O", "n", "l", "y">>, FALSE, <<>>)>>)>>]]

\* a column whose name alone takes half of the length limit
LongColumn == <<"E", "i", "g", "e", "n", "s", "c", "h", "a", "f", "t", "_">> \o Rep("e", LongColumnLen)

\* no mining model at all; Figur2 carries its level without a separator
KinoTemplate ==
    [filename |-> <<"d", "/", "k", "i", "n", "o", "_", "v", "o", "r", "l", "a", "g", "e", ".", "d", "m", "m">>,
     xml |-> [id |-> <<"k", "i", "n", "o", "_", "v", "o", "r", "l", "a", "g", "e">>, name |-> <<"k", "i", "n", "o", "_", "v", "o", "r", "l", "a", "g", "e">>, dtn |-> TRUE,
              columns |-> <<Plain(<<"G", "e", "n", "r", "e">>), Plain(<<"F", "i", "g", "u", "r", "2">>), Plain(LongColumn)>>,
              models |-> <<>>]]

\* a file name long enough for the composed name to pass the length limit
LongTemplate ==
    [filename |-> <<"d", "/", "m", "s", "_">> \o Rep("x", LongRootLen) \o <<"_", "v", "o", "r", "l", "a", "g", "e", ".", "d", "m", "m">>,
     xml |-> [id |-> <<"x">>, name |-> <<"x">>, dtn |-> TRUE,
              columns |-> <<Plain(<<"G", "e", "n", "r", "e">>), Plain(<<"F", "i", "g", "u", "r", "_", "L", "1">>)>>,
              models |-> <<MiningModel(<<"h", "i", "g", "h", "s", "c", "h", "o", "o", "l", "_", "k", "o", "m", "o", "e", "d", "i", "e">>, <<"h", "i", "g", "h", "s", "c", "h", "o", "o", "l", "_", "k", "o", "m", "o", "e", "d", "i", "e">>, TRUE,
                              <<Used(<<"F", "i", "g", "u", "r", "_", "L", "1">>, <<"K", "e", "y">>),
                                Used(<<"G", "e", "n", "r", "e">>, <<"P", "r", "e", "d", "i", "c", "t">>)>>)>>]]

Templates == {FilmTemplate, MuseTemplate, KinoTemplate, LongTemplate}

\* the names a caller passes to Document(filename, name)
ExplicitNames == {NoneValue, <<>>, <<"m", "o", "d", "e", "l", "l">>, Rep("n", LongNameLen)}

\* the column references of the spec table
References == {<<"F", "i", "g", "u", "r">>, <<"G", "e", "n", "r", "e">>, <<"F", "a", "r", "b", "e">>, <<"R", "o", "l", "l", "e", "n", "r", "e", "l", "e", "v", "a", "n", "z">>, <<"I", "D">>, LongColumn}

\* the ignore lists a caller passes to remove_unused
IgnoreLists == {DONT_REMOVE_COLUMNS, <<<<"G", "e", "n", "r", "e">>, <<"R", "o", "l", "l", "e", "n", "r", "e", "l", "e", "v", "a", "n", "z">>>>, <<>>}

\* the project file before any registration
EmptyProject ==
    <<<<"<", "P", "r", "o", "j", "e", "c", "t", ">", "\n">>, <<" ", " ", "<", "M", "i", "n", "i", "n", "g", "M", "o", "d", "e", "l", "s", ">", "\n">>, <<" ", " ", "<", "/", "M", "i", "n", "i", "n", "g", "M", "o", "d", "e", "l", "s", ">", "\n">>, <<"<", "/", "P", "r", "o", "j", "e", "c", "t", ">", "\n">>>>

----------------------------------------------------------------------------
(* Document: construction and selection                                    *)

\* os.path.basename
Basename(p) ==
    LET slashes == {i \in 1..Len(p) : p[i] = "/"}
    IN  IF slashes = {} THEN p ELSE SubSeq(p, SetMax(slashes) + 1, Len(p))

\* str.rstrip(chars): the trailing characters that are in chars are dropped
RStrip(s, chars) ==
    LET keep == {i \in 1..Len(s) : s[i] \notin chars}
    IN  IF keep = {} THEN <<>> ELSE SubSeq(s, 1, SetMax(keep))

\* str.strip(chars)
Strip(s, chars) ==
    LET keep == {i \in 1..Len(s) : s[i] \notin chars}
    IN  IF keep = {} THEN <<>> ELSE SubSeq(s, SetMin(keep), SetMax(keep))

\* Document.load: root = basename(filename).rstrip('_vorlage.dmm').strip('ms_')
RootOf(file) ==
    Strip(RStrip(Basename(file), {"_", "v", "o", "r", "l", "a", "g", "e", ".", "d", "m"}),
          {"m", "s", "_"})

\* canon while no name-reduction call is modelled
CanonIdle ==
    [pc |-> "idle", n |-> <<>>, suffix |-> <<>>,
     ofName |-> <<>>, ofSuffixed |-> <<>>, ofCanonical |-> <<>>]

\* batch while main() is not modelled
BatchIdle ==
    [pc |-> "idle", run |-> 0, rows |-> <<>>, model |-> <<>>, multiple |-> FALSE,
     create |-> FALSE, outcomes |-> <<>>]

\* no .csv file next to the template
CsvIdle == [exists |-> FALSE, header |-> <<>>, rows |-> <<>>]

\* manifest while the calls on the project file are not recorded
ManifestIdle == [calls |-> <<>>, before |-> <<>>, twice |-> <<>>]

\* the fields of a Document that no specification but Spec and SpecBatch uses
DocIdle ==
    /\ filename = <<>>
    /\ xml = [id |-> <<>>, name |-> <<>>, dtn |-> FALSE, columns |-> <<>>, models |-> <<>>]
    /\ root = <<>>
    /\ input_columns = <<>>
    /\ output_column = NoColumn
    /\ _name = NoneValue
    /\ phase = "Idle"
    /\ err = ""
    /\ lastOp = [op |-> "none", arg |-> <<>>]

\* Document.__init__ and load(): a template parsed, nothing selected
Init ==
    /\ \E t \in Templates :
          /\ filename = t.filename
          /\ xml = t.xml
          /\ root = RootOf(t.filename)
    /\ input_columns = <<>>
    /\ output_column = NoColumn
    /\ _name \in ExplicitNames
    /\ humanhash \in BOOLEAN
    /\ csv = CsvIdle
    /\ phase = "Loaded"
    /\ err = ""
    /\ lastOp = [op |-> "load", arg |-> <<>>]
    /\ files = {}
    /\ project = EmptyProject
    /\ canon = CanonIdle
    /\ batch = BatchIdle
    /\ manifest = ManifestIdle

\* Document.name of the current document
DocName == Name(root, _name, input_columns, output_column, humanhash)

\* max(doc.get_columns_by_name(ref), key=lambda x: x.level); ok = FALSE is the
\* ValueError of max() over an empty list
Resolve(tree, ref) ==
    LET found == get_columns_by_name(tree, ref)
    IN  IF found = <<>> THEN [ok |-> FALSE, col |-> NoColumn]
        ELSE [ok |-> TRUE, col |-> MaxByLevel(found)]

\* update_multiple_models, line 460: the output column is resolved from its reference
SelectOutput(ref) ==
    /\ phase = "Loaded"
    /\ LET r == Resolve(xml, ref)
       IN  /\ output_column' = IF r.ok THEN r.col ELSE output_column
           /\ err' = IF r.ok THEN "" ELSE "ValueError"
           /\ phase' = IF r.ok THEN phase ELSE "Failed"
    /\ lastOp' = [op |-> "select_output", arg |-> ref]
    /\ UNCHANGED <<filename, xml, root, input_columns, _name, humanhash, csv, files, project, canon, batch, manifest>>

\* update_multiple_models, lines 462-464: one input column is resolved and appended
SelectInput(ref) ==
    /\ phase = "Loaded"
    /\ Len(input_columns) < MaxInputs
    /\ LET r == Resolve(xml, ref)
       IN  /\ input_columns' = IF r.ok THEN Append(input_columns, r.col) ELSE input_columns
           /\ err' = IF r.ok THEN "" ELSE "ValueError"
           /\ phase' = IF r.ok THEN phase ELSE "Failed"
    /\ lastOp' = [op |-> "select_input", arg |-> ref]
    /\ UNCHANGED <<filename, xml, root, output_column, _name, humanhash, csv, files, project, canon, batch, manifest>>

\* Document.clear_selection
ClearSelection ==
    /\ phase = "Loaded"
    /\ input_columns' = <<>>
    /\ output_column' = NoColumn
    /\ err' = ""
    /\ lastOp' = [op |-> "clear_selection", arg |-> <<>>]
    /\ UNCHANGED <<filename, xml, root, _name, humanhash, csv, phase, files, project, canon, batch, manifest>>

----------------------------------------------------------------------------
(* Document: the pipeline prepare -> remove_unused -> write, and delete    *)

\* Document.prepare
Prepare ==
    /\ phase = "Loaded"
    /\ LET r == prepare(xml, root, _name, input_columns, output_column, humanhash)
       IN  /\ xml' = r.xml
           /\ err' = r.err
           /\ phase' = IF r.err = "" THEN "Prepared" ELSE "Failed"
    /\ lastOp' = [op |-> "prepare", arg |-> <<>>]
    /\ UNCHANGED <<filename, root, input_columns, output_column, _name, humanhash, csv, files,
                   project, canon, batch, manifest>>

\* Document.remove_unused(ignore)
RemoveUnused(ignore) ==
    /\ phase \in {"Loaded", "Prepared"}
    /\ xml' = remove_unused(xml, input_columns, output_column, ignore)
    /\ err' = ""
    /\ phase' = IF phase = "Prepared" THEN "Pruned" ELSE "PrunedUnprepared"
    /\ lastOp' = [op |-> "remove_unused", arg |-> ignore]
    /\ UNCHANGED <<filename, root, input_columns, output_column, _name, humanhash, csv, files,
                   project, canon, batch, manifest>>

\* the names of the .dmm files on disk
FileNames(fs) == {f.name : f \in fs}

\* the file xml.write() and the first-line fix of write() leave: the tree, its
\* root element replaced by the fixed header (which carries a design-time-name)
Written(name, tree) == [name |-> name, xml |-> [tree EXCEPT !.dtn = TRUE]]

\* Document.write. overwrite: the answer to confirm() when the file exists.
Write(overwrite) ==
    /\ phase \in {"Prepared", "Pruned"}
    /\ LET name == DocName
       IN  /\ name.ok
           /\ IF name.val \in FileNames(files) /\ ~overwrite
              THEN UNCHANGED <<files, project>>
              ELSE /\ files' = {f \in files : f.name # name.val}
                                  \cup {Written(name.val, xml)}
                   /\ project' = write_project_item(project, name.val)
    /\ err' = ""
    /\ phase' = "Persisted"
    /\ lastOp' = [op |-> "write", arg |-> <<>>]
    /\ UNCHANGED <<filename, xml, root, input_columns, output_column, _name, humanhash, csv, canon, batch, manifest>>

\* Document.delete
Delete ==
    /\ phase = "Loaded"
    /\ LET name == DocName
           r == remove_project_item(project, name.val)
       IN  IF ~name.ok
           THEN /\ err' = "AttributeError"
                /\ UNCHANGED <<files, project>>
           ELSE /\ files' = {f \in files : f.name # name.val}
                /\ project' = r.lines
                /\ err' = r.err
    /\ phase' = IF err' = "" THEN "Deleted" ELSE "Failed"
    /\ lastOp' = [op |-> "delete", arg |-> <<>>]
    /\ UNCHANGED <<filename, xml, root, input_columns, output_column, _name, humanhash, csv, canon, batch, manifest>>

Next ==
    \/ \E ref \in References : SelectOutput(ref)
    \/ \E ref \in References : SelectInput(ref)
    \/ ClearSelection
    \/ Prepare
    \/ \E ignore \in IgnoreLists : RemoveUnused(ignore)
    \/ \E overwrite \in BOOLEAN : Write(overwrite)
    \/ Delete

Spec == Init /\ [][Next]_vars

----------------------------------------------------------------------------
(* Properties of the document pipeline (Spec)                              *)

\* the tree load() parsed: the template the document was constructed from
LoadedTree == (CHOOSE t \in Templates : t.filename = filename).xml

\* the names of a list of structure columns, as a set
NamesOf(cols) == {cols[i].name : i \in 1..Len(cols)}

\* C1: remove_unused(ignore) never removes a declared top-level column that
\* non-strictly matches an entry of ignore or a name of used_columns; every such
\* column is still declared after the call.
C1_RemoveUnusedKeepsMatched ==
    [][(lastOp'.op = "remove_unused" /\ phase \in {"Loaded", "Prepared"}) =>
          LET ignore == lastOp'.arg
              used   == used_columns(xml, input_columns, output_column)
                            \cup {ignore[i] : i \in 1..Len(ignore)}
          IN  \A i \in 1..Len(xml.columns) :
                  (\E name \in used : Matches(Str(xml.columns[i]), name, FALSE)) =>
                      \E j \in 1..Len(xml'.columns) : xml'.columns[j] = xml.columns[i]]_vars

\* remove_unused has run after prepare, dropped a column, and kept one that no
\* used name equals but one matches after the level suffix is cut
C1_Witness ==
    /\ lastOp.op = "remove_unused"
    /\ phase = "Pruned"
    /\ Len(xml.columns) < Len(LoadedTree.columns)
    /\ LET used == used_columns(xml, input_columns, output_column)
                       \cup {lastOp.arg[i] : i \in 1..Len(lastOp.arg)}
       IN  \E i \in 1..Len(xml.columns) :
               /\ Str(xml.columns[i]) \notin used
               /\ \E name \in used : Matches(Str(xml.columns[i]), name, FALSE)

\* the end-to-end run of C2: the film template, input reference Figur and output
\* reference Genre resolved, prepare, then remove_unused((Genre, Rollenrelevanz))
EndToEndRun ==
    /\ filename = FilmTemplate.filename
    /\ _name = NoneValue
    /\ phase = "Pruned"
    /\ lastOp = [op |-> "remove_unused", arg |-> <<<<"G", "e", "n", "r", "e">>, <<"R", "o", "l", "l", "e", "n", "r", "e", "l", "e", "v", "a", "n", "z">>>>]
    /\ input_columns = <<Resolve(FilmTemplate.xml, <<"F", "i", "g", "u", "r">>).col>>
    /\ output_column = Resolve(FilmTemplate.xml, <<"G", "e", "n", "r", "e">>).col

\* C2 as stated: after the end-to-end run the declared columns are exactly Genre,
\* Figur_L2 and Rollenrelevanz (Figur_L1 is dropped) and the name is {root}__Figur__Genre.
C2_EndToEndDropsFigurL1 ==
    EndToEndRun =>
        /\ Str(input_columns[1]) = <<"F", "i", "g", "u", "r", "_", "L", "2">>
        /\ NamesOf(xml.columns) = {<<"G", "e", "n", "r", "e">>, <<"F", "i", "g", "u", "r", "_", "L", "2">>, <<"R", "o", "l", "l", "e", "n", "r", "e", "l", "e", "v", "a", "n", "z">>}
        /\ DocName = [ok |-> TRUE, val |-> root \o <<"_", "_", "F", "i", "g", "u", "r", "_", "_", "G", "e", "n", "r", "e">>]

\* C2 amended: after the end-to-end run the input is Figur_L2, all four declared
\* columns are still declared (Figur_L1 matches the used Figur_L2 once the level
\* suffix is cut) and the name is {root}__Figur__Genre.
C2_EndToEndKeepsFigurL1 ==
    EndToEndRun =>
        /\ Str(input_columns[1]) = <<"F", "i", "g", "u", "r", "_", "L", "2">>
        /\ NamesOf(xml.columns) = {<<"G", "e", "n", "r", "e">>, <<"F", "i", "g", "u", "r", "_", "L", "1">>, <<"F", "i", "g", "u", "r", "_", "L", "2">>, <<"R", "o", "l", "l", "e", "n", "r", "e", "l", "e", "v", "a", "n", "z">>}
        /\ Len(xml.columns) = Cardinality(NamesOf(xml.columns))
        /\ DocName = [ok |-> TRUE, val |-> root \o <<"_", "_", "F", "i", "g", "u", "r", "_", "_", "G", "e", "n", "r", "e">>]

C2_Witness == EndToEndRun

\* the trailing digit group of a name, <<>> if the name does not end in a digit
TrailingDigits(s) ==
    LET starts == {i \in 1..Len(s) : DigitsToEnd(s, i)}
    IN  IF starts = {} THEN <<>> ELSE SubSeq(s, SetMin(starts), Len(s))

RECURSIVE DecimalTo(_, _)
DecimalTo(d, k) == IF k = 0 THEN 0 ELSE 10 * DecimalTo(d, k - 1) + DigitVal(d[k])

\* the integer value of the whole trailing digit group, 0 when there is none
TrailingInt(s) == DecimalTo(TrailingDigits(s), Len(TrailingDigits(s)))

\* C3: the level of a column is the integer value of its whole trailing digit
\* group, and of the columns that match a reference the resolution selects the
\* one whose trailing integer is greatest, for multi-digit levels too.
C3_ResolvesGreatestTrailingInteger ==
    (lastOp.op = "select_output" /\ err = "") =>
        LET found == get_columns_by_name(xml, lastOp.arg)
        IN  /\ Level(Str(output_column)) = TrailingInt(Str(output_column))
            /\ \A i \in 1..Len(found) :
                   TrailingInt(Str(found[i])) <= TrailingInt(Str(output_column))

\* an explicit name was supplied to Document(filename, name)
ExplicitNameSupplied == _name # NoneValue /\ _name # <<>>

\* C5 as stated: a supplied explicit name of any length is Document.name verbatim.
C5_ExplicitNameVerbatim ==
    ExplicitNameSupplied => DocName = [ok |-> TRUE, val |-> _name]

\* C5 amended: a supplied explicit name of at most 100 characters is
\* Document.name verbatim, whatever the selected inputs and output are.
C5_ShortExplicitNameVerbatim ==
    (ExplicitNameSupplied /\ Len(_name) <= LengthLimit) =>
        DocName = [ok |-> TRUE, val |-> _name]

C5_Witness ==
    /\ ExplicitNameSupplied
    /\ Len(_name) <= LengthLimit
    /\ Len(input_columns) = MaxInputs
    /\ output_column # NoColumn

C6_Min(a, b) == IF a < b THEN a ELSE b

\* C6: with an output column the name has at most 100 characters, and when
\* "{root}__{part_name}" is longer the name is the first 100 characters of
\* "{root}__{token}__{output shortname}", token a function of part_name.
C6_NameWithinLengthLimit ==
    output_column # NoColumn =>
        LET part == part_name(input_columns, output_column)
        IN  /\ DocName.ok
            /\ Len(DocName.val) <= LengthLimit
            /\ (~ExplicitNameSupplied /\ Len(root \o <<"_", "_">> \o part) > LengthLimit) =>
                   LET long == root \o <<"_", "_">> \o NameToken(part, humanhash) \o <<"_", "_">>
                                   \o Shortname(Str(output_column))
                   IN  DocName.val = [i \in 1..C6_Min(Len(long), LengthLimit) |-> long[i]]

C6_Witness ==
    /\ output_column # NoColumn
    /\ Len(input_columns) = MaxInputs
    /\ ~ExplicitNameSupplied
    /\ Len(root \o <<"_", "_">> \o part_name(input_columns, output_column)) > LengthLimit
    /\ DocName.ok

\* what a model column and its inner columns say, whatever their design-time markers
Said(c) ==
    [id |-> c.id, name |-> c.name, source |-> c.source, usage |-> c.usage,
     columns |-> [i \in 1..Len(c.columns) |->
                     [id |-> c.columns[i].id, name |-> c.columns[i].name,
                      source |-> c.columns[i].source, usage |-> c.columns[i].usage]]]

\* the node C7 states for a selected column: identifier and name the column's
\* name, source reference its id, the given role, a nested child as a Key
C7_Node(col, usage) ==
    [id |-> col.name, name |-> col.name, source |-> col.id, usage |-> usage,
     columns |-> IF col.nested
                 THEN <<[id |-> col.child.name, name |-> col.child.name,
                         source |-> col.child.id, usage |-> <<"K", "e", "y">>]>>
                 ELSE <<>>]

\* the column list C7 states for a model whose columns were old
C7_Expected(old) ==
    LET IsKey(c) == c.usage = <<"K", "e", "y">>
        keys == SelectSeq(old, IsKey)
    IN  [i \in 1..Len(keys) |-> Said(keys[i])]
        \o [i \in 1..Len(input_columns) |-> C7_Node(input_columns[i], NoUsage)]
        \o <<C7_Node(output_column, <<"P", "r", "e", "d", "i", "c", "t", "O", "n", "l", "y">>)>>

\* C7: after prepare() with an output column, every model's column list is its old
\* Key columns in their order, then one node without a role per selected input in
\* selection order, then one PredictOnly node for the output.
C7_PreparedModelColumns ==
    (lastOp.op = "prepare" /\ output_column # NoColumn) =>
        /\ err = ""
        /\ Len(xml.models) = Len(LoadedTree.models)
        /\ \A m \in 1..Len(xml.models) :
               [i \in 1..Len(xml.models[m].columns) |-> Said(xml.models[m].columns[i])]
                   = C7_Expected(LoadedTree.models[m].columns)

C7_Witness ==
    /\ lastOp.op = "prepare"
    /\ output_column # NoColumn
    /\ Len(input_columns) = MaxInputs
    /\ Len(xml.models) > 1
    /\ \E i \in 1..Len(input_columns) : input_columns[i].nested
    /\ \A m \in 1..Len(xml.models) :
           /\ xml.models[m].columns[1].usage = <<"K", "e", "y">>
           /\ Len(xml.models[m].columns) < Len(LoadedTree.models[m].columns) + MaxInputs + 1

\* C8: prepare() without an output column always fails, and leaves the tree as
\* it was before the call.
C8_PrepareWithoutOutputFailsCleanly ==
    (lastOp.op = "prepare" /\ output_column = NoColumn) =>
        /\ err # ""
        /\ xml = LoadedTree

----------------------------------------------------------------------------
(* SpecBatch: main() in create/delete mode over the rows of the spec table  *)

MaxRows == 2

MaxRuns == 2

\* REMOVE_UNUSED_COLUMNS
REMOVE_UNUSED_COLUMNS == TRUE

\* delete(): the file is removed, then remove_project_item rewrites the project file
UnitDelete(fs, name, removed) ==
    [files |-> {f \in fs : f.name # name}, project |-> removed.lines, err |-> removed.err]

\* the tail of one Document's run: name is Document.name, prepared what prepare()
\* left. create: prepare(), remove_unused(), write(overwrite); else delete()
UnitFinish(fs, proj, name, prepared, inputs, output, create, overwrite) ==
    IF ~name.ok
    THEN [files |-> fs, project |-> proj, err |-> "AttributeError"]
    ELSE IF create
    THEN IF prepared.err # ""
         THEN [files |-> fs, project |-> proj, err |-> prepared.err]
         ELSE IF name.val \in FileNames(fs) /\ ~overwrite
         THEN [files |-> fs, project |-> proj, err |-> ""]
         ELSE [files |-> {f \in fs : f.name # name.val}
                            \cup {Written(name.val,
                                          IF REMOVE_UNUSED_COLUMNS
                                          THEN remove_unused(prepared.xml, inputs, output,
                                                             DONT_REMOVE_COLUMNS)
                                          ELSE prepared.xml)},
               project |-> write_project_item(proj, name.val),
               err |-> ""]
    ELSE UnitDelete(fs, name.val, remove_project_item(proj, name.val))

\* one Document once its references are resolved: out and ins are what
\* add_output_column and add_input_column found for each reference
UnitResolved(fs, proj, template, explicit, out, ins, create, overwrite, human) ==
    IF ~out.ok \/ \E i \in 1..Len(ins) : ~ins[i].ok
    THEN [files |-> fs, project |-> proj, err |-> "ValueError"]
    ELSE UnitFinish(fs, proj,
                    Name(RootOf(template.filename), explicit,
                         [i \in 1..Len(ins) |-> ins[i].col], out.col, human),
                    prepare(template.xml, RootOf(template.filename), explicit,
                            [i \in 1..Len(ins) |-> ins[i].col], out.col, human),
                    [i \in 1..Len(ins) |-> ins[i].col], out.col, create, overwrite)

\* One Document from construction to write() or delete(), as update_multiple_models
\* and the loop body of update_single_model run it. An exception ends the unit
\* where it is raised; the files and the project file keep what was written before.
UpdateUnit(fs, proj, template, explicit, outRef, inRefs, create, overwrite, human) ==
    UnitResolved(fs, proj, template, explicit, Resolve(template.xml, outRef),
                 [i \in 1..Len(inRefs) |-> Resolve(template.xml, inRefs[i])],
                 create, overwrite, human)

\* update_multiple_models
update_multiple_models(fs, proj, template, row, create, overwrite, human) ==
    UpdateUnit(fs, proj, template, row.filename, row.output, row.inputs, create,
               overwrite[1], human)

\* update_single_model: one Document per input reference, in order, up to the
\* first exception
RECURSIVE update_single_model(_, _, _, _, _, _, _, _)
SingleModelStep(unit, template, row, k, create, overwrite, human) ==
    IF unit.err # "" THEN unit
    ELSE update_single_model(unit.files, unit.project, template, row, k + 1,
                             create, overwrite, human)

update_single_model(fs, proj, template, row, k, create, overwrite, human) ==
    IF k > Len(row.inputs) THEN [files |-> fs, project |-> proj, err |-> ""]
    ELSE SingleModelStep(UpdateUnit(fs, proj, template, NoneValue, row.output,
                                    <<row.inputs[k]>>, create, overwrite[k], human),
                         template, row, k, create, overwrite, human)

\* the rows csv.DictReader yields: the '' cell (None without that column), the
\* filename cell (None without that column; '' when empty), and the headers of
\* the non-empty cells
Row(output, file, inputs) == [output |-> output, filename |-> file, inputs |-> inputs]

RowKinds ==
    {Row(<<"G", "e", "n", "r", "e">>, NoneValue, <<<<"F", "i", "g", "u", "r">>>>),
     Row(<<"G", "e", "n", "r", "e">>, <<"m", "o", "d", "e", "l", "l">>, <<<<"F", "i", "g", "u", "r">>, <<"R", "o", "l", "l", "e", "n", "r", "e", "l", "e", "v", "a", "n", "z">>>>),
     Row(<<"F", "i", "g", "u", "r">>, <<>>, <<<<"G", "e", "n", "r", "e">>, <<"F", "i", "g", "u", "r">>>>),
     Row(<<"G", "e", "n", "r", "e">>, <<"m", "o", "d", "e", "l", "l">>, <<>>)}

RECURSIVE TablesOf(_)
TablesOf(n) ==
    IF n = 0 THEN {<<>>}
    ELSE LET shorter == TablesOf(n - 1)
         IN  shorter \cup {Append(t, r) : t \in shorter, r \in RowKinds}

SpecTables == TablesOf(MaxRows) \ {<<>>}

BatchTemplates == {FilmTemplate, KinoTemplate}

BatchInit ==
    /\ DocIdle
    /\ humanhash \in BOOLEAN
    /\ csv = CsvIdle
    /\ files = {}
    /\ project = EmptyProject
    /\ canon = CanonIdle
    /\ manifest = ManifestIdle
    /\ batch = [BatchIdle EXCEPT !.pc = "exited"]

\* main() up to the loop: the operation, the csv file and the model are found
StartMain ==
    /\ batch.pc \in {"exited", "crashed"}
    /\ batch.run < MaxRuns
    /\ \E rows \in SpecTables, model \in BatchTemplates, multiple \in BOOLEAN,
          create \in BOOLEAN :
          batch' = [pc |-> "rows", run |-> batch.run + 1, rows |-> rows, model |-> model,
                    multiple |-> multiple, create |-> create, outcomes |-> <<>>]
    /\ UNCHANGED <<docVars, humanhash, csv, files, project, canon, manifest>>

\* the loop body of main() for one row whose update ended as r
RowDone(row, r) ==
    IF row.output # NoneValue /\ row.inputs # <<>>
    THEN /\ files' = r.files
         /\ project' = r.project
         /\ batch' = [batch EXCEPT
                         !.outcomes = Append(@, IF r.err = "" THEN "updated" ELSE r.err),
                         !.pc = IF r.err = "" THEN "rows" ELSE "crashed"]
    ELSE /\ UNCHANGED <<files, project>>
         /\ batch' = [batch EXCEPT !.outcomes = Append(@, "skipped")]

\* one iteration of the loop of main() over the rows
ProcessRow ==
    /\ batch.pc = "rows"
    /\ Len(batch.outcomes) < Len(batch.rows)
    /\ \E overwrite \in [1..MaxInputs -> BOOLEAN] :
          RowDone(batch.rows[Len(batch.outcomes) + 1],
                  IF batch.multiple
                  THEN update_multiple_models(files, project, batch.model,
                                              batch.rows[Len(batch.outcomes) + 1],
                                              batch.create, overwrite, humanhash)
                  ELSE update_single_model(files, project, batch.model,
                                           batch.rows[Len(batch.outcomes) + 1], 1,
                                           batch.create, overwrite, humanhash))
    /\ UNCHANGED <<docVars, humanhash, csv, canon, manifest>>

\* the loop of main() ends and the process exits
ExitMain ==
    /\ batch.pc = "rows"
    /\ Len(batch.outcomes) = Len(batch.rows)
    /\ batch' = [batch EXCEPT !.pc = "exited"]
    /\ UNCHANGED <<docVars, humanhash, csv, files, project, canon, manifest>>

BatchNext == StartMain \/ ProcessRow \/ ExitMain

SpecBatch == BatchInit /\ [][BatchNext]_vars

\* C9: in batch mode a failure while one row is processed is confined to that
\* row: every later row of the table is still processed.
C9_LaterRowsProcessed ==
    batch.pc \in {"exited", "crashed"} => Len(batch.outcomes) = Len(batch.rows)

----------------------------------------------------------------------------
(* SpecManifest: write_project_item and remove_project_item on one project *)
(* file, for documents of different generated names                        *)

MaxCalls == 3

\* Document.name of the documents that register themselves: two names of the spec
\* table's filename column, one of which begins the other, and two composed names
ManifestNames ==
    {<<"m", "o", "d", "e", "l", "l", "1">>, <<"m", "o", "d", "e", "l", "l", "1", "0">>, <<"f", "i", "_", "_", "F", "i", "g", "u", "r", "_", "_", "G", "e", "n", "r", "e">>, <<"k", "i", "n", "_", "_", "G", "e", "n", "r", "e", "_", "_", "F", "i", "g", "u", "r">>}

ManifestInit ==
    /\ DocIdle
    /\ humanhash = FALSE
    /\ csv = CsvIdle
    /\ files = {}
    /\ project = EmptyProject
    /\ canon = CanonIdle
    /\ batch = BatchIdle
    /\ manifest = [calls |-> <<>>, before |-> EmptyProject, twice |-> EmptyProject]

\* write() of a document named name reaches write_project_item
WriteProjectItem(name) ==
    /\ Len(manifest.calls) < MaxCalls
    /\ project' = write_project_item(project, name)
    /\ manifest' = [calls |-> Append(manifest.calls, [op |-> "write_project_item", name |-> name]),
                    before |-> project,
                    twice |-> write_project_item(write_project_item(project, name), name)]
    /\ UNCHANGED <<docVars, humanhash, csv, files, canon, batch>>

\* delete() of a document named name reaches remove_project_item
RemoveProjectItem(name) ==
    /\ Len(manifest.calls) < MaxCalls
    /\ project' = remove_project_item(project, name).lines
    /\ manifest' = [calls |-> Append(manifest.calls, [op |-> "remove_project_item", name |-> name]),
                    before |-> project,
                    twice |-> remove_project_item(project', name).lines]
    /\ UNCHANGED <<docVars, humanhash, csv, files, canon, batch>>

ManifestNext ==
    \/ \E name \in ManifestNames : WriteProjectItem(name)
    \/ \E name \in ManifestNames : RemoveProjectItem(name)

SpecManifest == ManifestInit /\ [][ManifestNext]_vars

\* the project file holds a ProjectItem block that names "{name}.dmm"
HasBlock(lines, name) ==
    \E i \in 1..(Len(lines) - 3) : SubSeq(lines, i, i + 3) = ProjectItem(name)

\* lines with one ProjectItem block for name put right before the closing marker
WithBlock(lines, name) ==
    LET closing == {i \in 1..Len(lines) : Contains(lines[i], ClosingMarker)}
        k == SetMin(closing)
    IN  SubSeq(lines, 1, k - 1) \o ProjectItem(name) \o SubSeq(lines, k, Len(lines))

\* the last call, if it was write_project_item
Registered ==
    /\ manifest.calls # <<>>
    /\ manifest.calls[Len(manifest.calls)].op = "write_project_item"

LastName == manifest.calls[Len(manifest.calls)].name

\* C10: write_project_item leaves the project file unchanged if it has an entry
\* for the name, else inserts one block for "{name}.dmm" right before the closing
\* marker and keeps every other line; afterwards the file has a block for the
\* name, and a second call changes nothing.
C10_RegisterIdempotent ==
    Registered =>
        /\ project = IF HasBlock(manifest.before, LastName)
                     THEN manifest.before
                     ELSE WithBlock(manifest.before, LastName)
        /\ HasBlock(project, LastName)
        /\ manifest.twice = project

\* the operation of the last call made for name, "none" if no call was made for it
LastCallFor(name) ==
    LET mine == {i \in 1..Len(manifest.calls) : manifest.calls[i].name = name}
    IN  IF mine = {} THEN "none" ELSE manifest.calls[SetMax(mine)].op

\* C11: after any sequence of write_project_item and remove_project_item calls
\* over distinct names, from a project file without blocks, the file holds a block
\* for a name exactly when the last call made for that name was write_project_item.
C11_BlockIffLastRegistered ==
    \A name \in ManifestNames :
        HasBlock(project, name) <=> LastCallFor(name) = "write_project_item"

----------------------------------------------------------------------------
(* SpecExport: export_mining_columns, then the references of a batch run    *)
(* taken from the exported table                                           *)

LowerLetters == <<"a", "b", "c", "d", "e", "f", "g", "h", "i", "j", "k", "l", "m", "n", "o", "p", "q", "r", "s", "t", "u", "v", "w", "x", "y", "z">>

UpperLetters == <<"A", "B", "C", "D", "E", "F", "G", "H", "I", "J", "K", "L", "M", "N", "O", "P", "Q", "R", "S", "T", "U", "V", "W", "X", "Y", "Z">>

\* str.upper()
Upper(s) ==
    [i \in 1..Len(s) |->
        IF \E k \in 1..Len(LowerLetters) : LowerLetters[k] = s[i]
        THEN UpperLetters[CHOOSE k \in 1..Len(LowerLetters) : LowerLetters[k] = s[i]]
        ELSE s[i]]

\* list.sort() of a list of str: stable, ascending by code points
SortStrings(names) ==
    LET before(k, i) == StrLess(names[k], names[i]) \/ (names[k] = names[i] /\ k < i)
        rank(i) == Cardinality({k \in 1..Len(names) : before(k, i)}) + 1
    IN  [j \in 1..Len(names) |-> names[CHOOSE i \in 1..Len(names) : rank(i) = j]]

\* the loop of export_mining_columns from the k-th sorted column on: a column
\* that matches last_col is skipped, any other becomes last_col and its
\* shortname is appended unless it is ID in any case
RECURSIVE ExportFilter(_, _, _)
ExportFilter(cols, k, last_col) ==
    IF k > Len(cols) THEN <<>>
    ELSE IF last_col # NoColumn /\ Matches(Str(cols[k]), Str(last_col), FALSE)
    THEN ExportFilter(cols, k + 1, last_col)
    ELSE (IF Upper(Shortname(Str(cols[k]))) # <<"I", "D">>
          THEN <<Shortname(Str(cols[k]))>>
          ELSE <<>>)
         \o ExportFilter(cols, k + 1, cols[k])

\* Document.export_mining_columns: the header row and the rows of the csv file
export_mining_columns(tree) ==
    LET filtered == SortStrings(ExportFilter(SortByStr(mining_columns(tree)), 1, NoColumn))
    IN  [exists |-> TRUE,
         header |-> <<<<>>>> \o filtered \o <<<<"f", "i", "l", "e", "n", "a", "m", "e">>>>,
         rows   |-> [i \in 1..Len(filtered) |->
                        <<filtered[i]>> \o [k \in 1..(Len(filtered) + 1) |-> <<>>]]]

\* main() with operation extract. overwrite: the answer to confirm() when the
\* csv file exists.
ExportMiningColumns(overwrite) ==
    /\ phase = "Loaded"
    /\ csv' = IF csv.exists /\ ~overwrite THEN csv ELSE export_mining_columns(xml)
    /\ err' = ""
    /\ lastOp' = [op |-> "export_mining_columns", arg |-> <<>>]
    /\ UNCHANGED <<filename, xml, root, input_columns, output_column, _name, humanhash,
                   phase, files, project, canon, batch, manifest>>

\* the column headers of the csv file: row.pop('') and row.pop('filename') take
\* the first and the last field away
HeaderNames(table) == {table.header[i] : i \in 2..(Len(table.header) - 1)}

\* the row labels of the csv file, the '' field of each row
RowLabels(table) == {table.rows[i][1] : i \in 1..Len(table.rows)}

\* a batch run on the exported table resolves the label of a row as output
ResolveExportedOutput ==
    /\ csv.exists
    /\ \E ref \in RowLabels(csv) : SelectOutput(ref)

\* a batch run on the exported table resolves a column header as input
ResolveExportedInput ==
    /\ csv.exists
    /\ \E ref \in HeaderNames(csv) : SelectInput(ref)

ExportNext ==
    \/ \E overwrite \in BOOLEAN : ExportMiningColumns(overwrite)
    \/ ResolveExportedOutput
    \/ ResolveExportedInput

SpecExport == Init /\ [][ExportNext]_vars

\* C12: every shortname export_mining_columns writes as a header or row label
\* matches at least one declared column in get_columns_by_name, so resolving
\* an exported name in a batch run never takes max() of an empty list.
C12_ExportedNamesResolve ==
    /\ csv.exists =>
           \A ref \in HeaderNames(csv) \cup RowLabels(csv) :
               get_columns_by_name(xml, ref) # <<>>
    /\ lastOp.op \in {"select_output", "select_input"} => err = ""

----------------------------------------------------------------------------
(* SpecCanon: the name reduction of matches() applied to bounded names     *)

MaxNameLen == 3

MaxSuffixDigits == 2

NameChars == {"F", "L", "_", "1", "2"}

SuffixSeps == {"_", ".", "-"}

SuffixDigits == {"1", "2"}

RECURSIVE SeqsUpTo(_, _)
SeqsUpTo(S, n) ==
    IF n = 0 THEN {<<>>}
    ELSE LET shorter == SeqsUpTo(S, n - 1)
         IN  shorter \cup {Append(s, c) : s \in shorter, c \in S}

CanonNames == SeqsUpTo(NameChars, MaxNameLen) \ {<<>>}

\* <separator><optional L or l><one or more digits>
CanonSuffixes ==
    {<<sep>> \o l \o d :
        sep \in SuffixSeps,
        l \in {<<>>, <<"L">>, <<"l">>},
        d \in SeqsUpTo(SuffixDigits, MaxSuffixDigits) \ {<<>>}}

CanonInit ==
    /\ DocIdle
    /\ humanhash = FALSE
    /\ csv = CsvIdle
    /\ files = {}
    /\ project = <<>>
    /\ batch = BatchIdle
    /\ manifest = ManifestIdle
    /\ canon = [pc |-> "start", n |-> <<>>, suffix |-> <<>>,
             ofName |-> <<>>, ofSuffixed |-> <<>>, ofCanonical |-> <<>>]

\* a caller picks the name and the level suffix to compare
CanonChoose ==
    /\ canon.pc = "start"
    /\ \E n \in CanonNames, suffix \in CanonSuffixes :
          canon' = [canon EXCEPT !.pc = "chosen", !.n = n, !.suffix = suffix]
    /\ UNCHANGED <<docVars, humanhash, csv, files, project, batch, manifest>>

\* the reductions matches() computes for n, for n + suffix and for the reduced n
CanonApply ==
    /\ canon.pc = "chosen"
    /\ canon' = [canon EXCEPT !.pc = "done",
                              !.ofName = Canonical(canon.n),
                              !.ofSuffixed = Canonical(canon.n \o canon.suffix),
                              !.ofCanonical = Canonical(Canonical(canon.n))]
    /\ UNCHANGED <<docVars, humanhash, csv, files, project, batch, manifest>>

CanonNext == CanonChoose \/ CanonApply

SpecCanon == CanonInit /\ [][CanonNext]_vars

\* C4: canonical(n + suffix) = canonical(n) and canonical(canonical(n)) = canonical(n)
\* for every name n and every suffix <separator><L?><digits>.
C4_CanonicalSuffixFixedPoint ==
    canon.pc = "done" =>
        /\ canon.ofSuffixed = canon.ofName
        /\ canon.ofCanonical = canon.ofName

====
